---- MODULE Spec2Model ----
(***************************************************************************)
(* Renovation allocation (src/main.go): solver() builds a MIP model from   *)
(* the input, configures and runs the external solver, and format() maps   *)
(* the solver's variable values back to (property, renovation)             *)
(* assignments.                                                            *)
(*                                                                         *)
(* float64 values are represented as integers in units of 1/Scale, so     *)
(* that math.Round has something to round.  Costs, effects and the budget  *)
(* are small integers (exactly representable float64 values).              *)
(***************************************************************************)
EXTENDS Integers, Sequences, FiniteSets, TLC

VARIABLES input, pc, model, index, solveOptions, err, status, values, ret, called,
          ncalls

vars ==
    <<input, pc, model, index, solveOptions, err, status, values, ret, called, ncalls>>

-----------------------------------------------------------------------------
(* Bounds of the explored inputs.                                          *)

\* most properties in an input of the solver() runs
MaxProps == 2
\* most (property, renovation) pairs in an input of the solver() runs
MaxPairs == 4
\* most properties / pairs in an input of the format() runs
FmtMaxProps == 2
FmtMaxPairs == 3
\* format() is applied this many times to the same arguments
MaxCalls == 2

\* one unit of a variable value is 1/Scale
Scale == 1000000

PropertyIDs == {"a", "b"}

\* the renovations a property can offer in the enumerated inputs: a free one
\* and a dear one
RenovationMenu ==
    { [ID |-> "garden", Effect |-> 1, Cost |-> 0],
      [ID |-> "roof",   Effect |-> 3, Cost |-> 2] }

Budgets == {-1, 0, 3}

\* values a solver may report for a variable, in units of 1/Scale:
\* 0, 0.499999, 0.5, 0.999999, 1
FmtValues == {0, 499999, 500000, 999999, Scale}

\* errors the mip calls may return
Errors == {"errA", "errB"}
NoError == "nil"

Statuses == {"optimal", "suboptimal", "infeasible", "error"}

-----------------------------------------------------------------------------
(* Inputs.                                                                 *)

SeqsUpTo(S, n) == UNION { [1..k -> S] : k \in 0..n }

\* every list of at most maxProps properties holding at most maxPairs
\* renovations between them
RECURSIVE PropertyLists(_, _, _)
PropertyLists(menu, maxProps, maxPairs) ==
    IF maxProps = 0 THEN { <<>> }
    ELSE { <<>> } \cup
         UNION { { <<[ID |-> id, Renovations |-> rs]>> \o rest :
                     id \in PropertyIDs,
                     rest \in PropertyLists(menu, maxProps - 1, maxPairs - Len(rs)) } :
                 rs \in SeqsUpTo(menu, maxPairs) }

InputsOver(menu, maxProps, maxPairs, budgets) ==
    { [Properties |-> ps, Budget |-> b] :
        ps \in PropertyLists(menu, maxProps, maxPairs), b \in budgets }

\* spec.md section 8, scenario A
ScenarioA ==
    [Properties |->
        << [ID |-> "P1",
            Renovations |-> << [ID |-> "r1", Effect |-> 3, Cost |-> 5],
                               [ID |-> "r2", Effect |-> 5, Cost |-> 4],
                               [ID |-> "r3", Effect |-> 1, Cost |-> 3] >>] >>,
     Budget |-> 10]

\* spec.md section 8, scenario C
ScenarioC ==
    [Properties |->
        << [ID |-> "P1",
            Renovations |-> << [ID |-> "r1", Effect |-> 1, Cost |-> 1],
                               [ID |-> "r2", Effect |-> 1, Cost |-> 1],
                               [ID |-> "r3", Effect |-> 1, Cost |-> 1],
                               [ID |-> "r4", Effect |-> 1, Cost |-> 1] >>] >>,
     Budget |-> 10]

\* a harmful renovation, a useless one and two that compete for the budget
ScenarioMixed ==
    [Properties |->
        << [ID |-> "a",
            Renovations |-> << [ID |-> "demolish", Effect |-> -1, Cost |-> 1],
                               [ID |-> "paint",    Effect |-> 2,  Cost |-> 2] >>],
           [ID |-> "b",
            Renovations |-> << [ID |-> "fence",    Effect |-> 0,  Cost |-> 1],
                               [ID |-> "roof",     Effect |-> 3,  Cost |-> 2] >>] >>,
     Budget |-> 3]

Inputs ==
    InputsOver(RenovationMenu, MaxProps, MaxPairs, Budgets)
        \cup {ScenarioA, ScenarioC, ScenarioMixed}

\* the inputs of the format() runs: every shape, and a record of its own at
\* every position, so that a record taken from the wrong position shows
FmtNames == <<"r1", "r2", "r3", "r4", "r5", "r6", "r7", "r8">>

FmtRenovation(k) == [ID |-> FmtNames[k], Effect |-> 2 * k + 1, Cost |-> k]

RECURSIVE LensBefore(_, _)
LensBefore(ps, p) ==
    IF p <= 1 THEN 0 ELSE LensBefore(ps, p - 1) + Len(ps[p - 1].Renovations)

Relabel(ps) ==
    [p \in DOMAIN ps |->
        [ID |-> ps[p].ID,
         Renovations |-> [j \in DOMAIN ps[p].Renovations |->
                            FmtRenovation(LensBefore(ps, p) + j)]]]

FmtInputs ==
    { [Properties |-> Relabel(ps), Budget |-> 1] :
        ps \in PropertyLists({"any"}, FmtMaxProps, FmtMaxPairs) }

-----------------------------------------------------------------------------
(* The model-building pass of solver().                                    *)

\* m := mip.NewModel(); SetMaximize(); budgetConstraint := NewConstraint(<=, Budget)
NewModel(inp) ==
    [ vars        |-> <<>>,
      sense       |-> "maximize",
      objective   |-> <<>>,
      constraints |-> << [sense |-> "<=", rhs |-> inp.Budget, terms |-> <<>>] >>,
      index       |-> [id \in {} |-> <<>>] ]

\* a count constraint that admits four renovations
NewCountConstraint_Four == [sense |-> "<=", rhs |-> 4, terms |-> <<>>]

\* m.NewConstraint(mip.LessThanOrEqual, 3.0)
NewCountConstraint == [sense |-> "<=", rhs |-> 3, terms |-> <<>>]

\* m.Objective().NewTerm(Renovation.Effect, variable)
ObjectiveTerm(r, v) == [coef |-> r.Effect, var |-> v]

\* a budget term that counts the renovation instead of weighing its cost
BudgetTerm_Unit(r, v) == [coef |-> 1, var |-> v]

\* budgetConstraint.NewTerm(Renovation.Cost, variable)
BudgetTerm(r, v) == [coef |-> r.Cost, var |-> v]

\* a count term that lands with weight 2
CountTerm_Two(v) == [coef |-> 2, var |-> v]

\* countRenovationConstraint.NewTerm(1, variable)
CountTerm(v) == [coef |-> 1, var |-> v]

\* map assignment m[k] = v
MapSet(m, k, v) == [x \in (DOMAIN m) \cup {k} |-> IF x = k THEN v ELSE m[x]]

\* the inner loop: one variable and three terms per renovation of a property;
\* ci is the position of the property's count constraint
RECURSIVE BuildRenovations(_, _, _, _)
BuildRenovations(st, property, ci, i) ==
    IF i > Len(property.Renovations) THEN st
    ELSE
      LET v == Len(st.vars) + 1
          r == property.Renovations[i]
          st1 == [st EXCEPT
                    !.vars = Append(@, "Bool"),
                    !.index[property.ID][i] = v,
                    !.objective = Append(@, ObjectiveTerm(r, v)),
                    !.constraints[1].terms = Append(@, BudgetTerm(r, v))]
          st2 == [st1 EXCEPT
                    !.constraints[ci].terms = Append(@, CountTerm(v))]
      IN BuildRenovations(st2, property, ci, i + 1)

\* the outer loop: a fresh slice in the map and a fresh count constraint per property
RECURSIVE BuildProperties(_, _, _)
BuildProperties(st, inp, p) ==
    IF p > Len(inp.Properties) THEN st
    ELSE
      LET property == inp.Properties[p]
          st1 == [st EXCEPT
                    !.index = MapSet(@, property.ID,
                                     [k \in 1..Len(property.Renovations) |-> 0]),
                    !.constraints = Append(@, NewCountConstraint)]
      IN BuildProperties(
            BuildRenovations(st1, property, Len(st1.constraints), 1), inp, p + 1)

BuildModel(inp) == BuildProperties(NewModel(inp), inp, 1)

-----------------------------------------------------------------------------
(* The external solver, as far as solver() and format() depend on it.      *)

RECURSIVE SumTerms(_, _)
SumTerms(terms, x) ==
    IF terms = <<>> THEN 0
    ELSE Head(terms).coef * x[Head(terms).var] + SumTerms(Tail(terms), x)

Satisfies(c, x) == SumTerms(c.terms, x) <= c.rhs

Feasible(m, x) == \A k \in 1..Len(m.constraints) : Satisfies(m.constraints[k], x)

\* the 0/1 points of the model's binary variables
Points(m) == [1..Len(m.vars) -> {0, 1}]

FeasiblePoints(m) == { x \in Points(m) : Feasible(m, x) }

\* what solver.Solve may hand back without an error: a maximum of the objective
\* over the feasible points (relative gap 0), any feasible point, a proof that
\* there is none, or a failure without a point
SolveResults(m) ==
    LET F == FeasiblePoints(m)
        zero == [v \in 1..Len(m.vars) |-> 0]
        best == { x \in F :
                    \A y \in F : SumTerms(m.objective, y) <= SumTerms(m.objective, x) }
    IN { [status |-> "optimal", point |-> x] : x \in best }
         \cup { [status |-> "suboptimal", point |-> x] : x \in F }
         \cup (IF F = {} THEN { [status |-> "infeasible", point |-> zero] } ELSE {})
         \cup { [status |-> "error", point |-> zero] }

-----------------------------------------------------------------------------
(* format().                                                               *)

IsOptimal(st) == st = "optimal"

\* a status test that never recognises a suboptimal result
IsSubOptimal_Never(st) == FALSE

IsSubOptimal(st) == st = "suboptimal"

\* a conversion that truncates instead of rounding
Round_Truncating(v) == v \div Scale

\* math.Round: nearest integer, halves away from zero; v is in units of 1/Scale
Round(v) ==
    IF v >= 0 THEN (2 * v + Scale) \div (2 * Scale)
    ELSE -((2 * (-v) + Scale) \div (2 * Scale))

\* solverSolution.Value(variable)
Value(vals, v) == vals[v]

\* a test that lets a variable of value 0 through
Assigned_FromZero(vals, v) == ~(Round(Value(vals, v)) < 0)

\* the condition under which the loop body does not `continue`
Assigned(vals, v) == ~(Round(Value(vals, v)) < 1)

\* the record appended for position (i, j)
NewAssignment(inp, i, j) ==
    [ Cost         |-> inp.Properties[i].Renovations[j].Cost,
      Effect       |-> inp.Properties[i].Renovations[j].Effect,
      Property     |-> inp.Properties[i].ID,
      RenovationID |-> inp.Properties[i].Renovations[j].ID ]

\* the two nested loops; indexing the slice past its length panics
RECURSIVE formatLoop(_, _, _, _, _, _)
formatLoop(inp, vals, idx, i, j, assigned) ==
    IF i > Len(inp.Properties) THEN [panic |-> FALSE, Assignments |-> assigned]
    ELSE IF j > Len(inp.Properties[i].Renovations)
         THEN formatLoop(inp, vals, idx, i + 1, 1, assigned)
    ELSE LET slice == idx[inp.Properties[i].ID]
         IN IF j > Len(slice) THEN [panic |-> TRUE, Assignments |-> <<>>]
            ELSE IF Assigned(vals, slice[j])
                 THEN formatLoop(inp, vals, idx, i, j + 1,
                                 Append(assigned, NewAssignment(inp, i, j)))
            ELSE formatLoop(inp, vals, idx, i, j + 1, assigned)

format(inp, st, vals, idx) ==
    IF ~IsOptimal(st) /\ ~IsSubOptimal(st)
    THEN [panic |-> FALSE, Assignments |-> <<>>]
    ELSE formatLoop(inp, vals, idx, 1, 1, <<>>)

-----------------------------------------------------------------------------
(* solver(): one action per step.                                          *)

\* schema.Output{}
EmptyOutput == [Solutions |-> <<>>]

\* mip.NewSolveOptions(), before anything is set
NewSolveOptions ==
    [MaximumDuration |-> "default", MIPGapRelative |-> "default", Verbosity |-> "default"]

Running == [done |-> FALSE, Output |-> EmptyOutput, Err |-> NoError]

\* the mip.Model part of the builder's state
ModelOf(st) ==
    [vars |-> st.vars, sense |-> st.sense, objective |-> st.objective,
     constraints |-> st.constraints]

Init ==
    /\ input \in Inputs
    /\ pc = "build"
    /\ model = ModelOf(NewModel(input))
    /\ index = [id \in {} |-> <<>>]
    /\ solveOptions = NewSolveOptions
    /\ err = NoError
    /\ status = "none"
    /\ values = <<>>
    /\ ret = Running
    /\ called = <<>>
    /\ ncalls = 0

\* `return schema.Output{}, err`
ReturnError(e) ==
    /\ pc' = "returned"
    /\ ret' = [done |-> TRUE, Output |-> EmptyOutput, Err |-> e]

Build ==
    /\ pc = "build"
    /\ LET st == BuildModel(input)
       IN /\ model' = ModelOf(st)
          /\ index' = st.index
    /\ pc' = "NewSolver"
    /\ called' = Append(called, "build")
    /\ UNCHANGED <<input, solveOptions, err, status, values, ret, ncalls>>

NewSolver ==
    /\ pc = "NewSolver"
    /\ called' = Append(called, "NewSolver")
    /\ \E e \in Errors \cup {NoError} :
          /\ err' = e
          /\ IF e # NoError THEN ReturnError(e)
             ELSE pc' = "SetMaximumDuration" /\ ret' = ret
    /\ UNCHANGED <<input, model, index, solveOptions, status, values, ncalls>>

SetMaximumDuration ==
    /\ pc = "SetMaximumDuration"
    /\ called' = Append(called, "SetMaximumDuration")
    /\ \E e \in Errors \cup {NoError} :
          /\ err' = e
          /\ IF e # NoError
             THEN ReturnError(e) /\ UNCHANGED solveOptions
             ELSE /\ pc' = "SetMIPGapRelative"
                  /\ ret' = ret
                  /\ solveOptions' =
                        [solveOptions EXCEPT !.MaximumDuration = "options.Limits.Duration"]
    /\ UNCHANGED <<input, model, index, status, values, ncalls>>

\* a gap setter whose error is dropped: the run goes on to Solve
SetMIPGapRelative_ErrorIgnored ==
    /\ pc = "SetMIPGapRelative"
    /\ called' = Append(called, "SetMIPGapRelative")
    /\ \E e \in Errors \cup {NoError} : err' = e
    /\ pc' = "Solve"
    /\ solveOptions' = [solveOptions EXCEPT !.MIPGapRelative = 0, !.Verbosity = "Off"]
    /\ UNCHANGED <<input, model, index, status, values, ret, ncalls>>

\* SetMIPGapRelative(0), and on success SetVerbosity(mip.Off), which cannot fail
SetMIPGapRelative ==
    /\ pc = "SetMIPGapRelative"
    /\ called' = Append(called, "SetMIPGapRelative")
    /\ \E e \in Errors \cup {NoError} :
          /\ err' = e
          /\ IF e # NoError
             THEN ReturnError(e) /\ UNCHANGED solveOptions
             ELSE /\ pc' = "Solve"
                  /\ ret' = ret
                  /\ solveOptions' =
                        [solveOptions EXCEPT !.MIPGapRelative = 0, !.Verbosity = "Off"]
    /\ UNCHANGED <<input, model, index, status, values, ncalls>>

Solve ==
    /\ pc = "Solve"
    /\ called' = Append(called, "Solve")
    /\ \/ \E e \in Errors :
            /\ err' = e
            /\ ReturnError(e)
            /\ UNCHANGED <<status, values>>
       \/ \E r \in SolveResults(model) :
            /\ err' = NoError
            /\ status' = r.status
            /\ values' = [v \in DOMAIN r.point |-> r.point[v] * Scale]
            /\ pc' = "format"
            /\ ret' = ret
    /\ UNCHANGED <<input, model, index, solveOptions, ncalls>>

\* mip.Format(options, format(input, solution, propertyRenovationVariables), solution)
Format ==
    /\ pc = "format"
    /\ called' = Append(called, "format")
    /\ LET r == format(input, status, values, index)
       IN IF r.panic
          THEN pc' = "panic" /\ ret' = ret
          ELSE /\ pc' = "returned"
               /\ ret' = [done |-> TRUE,
                          Output |-> [Solutions |-> <<[Assignments |-> r.Assignments]>>],
                          Err |-> NoError]
    /\ ncalls' = ncalls + 1
    /\ UNCHANGED <<input, model, index, solveOptions, err, status, values>>

Next ==
    \/ Build
    \/ NewSolver
    \/ SetMaximumDuration
    \/ SetMIPGapRelative
    \/ Solve
    \/ Format

Spec == Init /\ [][Next]_vars

-----------------------------------------------------------------------------
(* format() on its own: any status and any values for the variables of the *)
(* index built for the input, applied MaxCalls times.                      *)

InitFormat ==
    /\ input \in FmtInputs
    /\ pc = "format"
    /\ LET st == BuildModel(input)
       IN /\ model = ModelOf(st)
          /\ index = st.index
          /\ values \in [1..Len(st.vars) -> FmtValues]
    /\ solveOptions =
          [MaximumDuration |-> "options.Limits.Duration", MIPGapRelative |-> 0,
           Verbosity |-> "Off"]
    /\ err = NoError
    /\ status \in Statuses
    /\ ret = Running
    /\ called = <<"build", "NewSolver", "SetMaximumDuration", "SetMIPGapRelative",
                  "Solve">>
    /\ ncalls = 0

\* a format() that empties the slices of the map it was given
FormatCall_ClearsIndex ==
    /\ pc \in {"format", "returned"}
    /\ ncalls < MaxCalls
    /\ LET r == format(input, status, values, index)
       IN IF r.panic
          THEN pc' = "panic" /\ ret' = ret
          ELSE /\ pc' = "returned"
               /\ ret' = [done |-> TRUE,
                          Output |-> [Solutions |-> <<[Assignments |-> r.Assignments]>>],
                          Err |-> NoError]
    /\ index' = [id \in DOMAIN index |-> <<>>]
    /\ ncalls' = ncalls + 1
    /\ UNCHANGED <<input, model, solveOptions, err, status, values, called>>

\* one call of format(input, solverSolution, propertyRenovationVariables)
FormatCall ==
    /\ pc \in {"format", "returned"}
    /\ ncalls < MaxCalls
    /\ LET r == format(input, status, values, index)
       IN IF r.panic
          THEN pc' = "panic" /\ ret' = ret
          ELSE /\ pc' = "returned"
               /\ ret' = [done |-> TRUE,
                          Output |-> [Solutions |-> <<[Assignments |-> r.Assignments]>>],
                          Err |-> NoError]
    /\ ncalls' = ncalls + 1
    /\ UNCHANGED <<input, model, index, solveOptions, err, status, values, called>>

NextFormat == FormatCall

SpecFormat == InitFormat /\ [][NextFormat]_vars

-----------------------------------------------------------------------------
(* Vocabulary of the properties.                                           *)

Usable(st) == st \in {"optimal", "suboptimal"}

UniqueIDs(inp) ==
    \A p, q \in 1..Len(inp.Properties) :
        inp.Properties[p].ID = inp.Properties[q].ID => p = q

\* the (property, renovation) positions of an input
Pairs(inp) ==
    UNION { { <<i, j>> : j \in 1..Len(inp.Properties[i].Renovations) } :
            i \in 1..Len(inp.Properties) }

RenovationAt(inp, pr) == inp.Properties[pr[1]].Renovations[pr[2]]

\* number of renovations of the properties before property i
RECURSIVE Before(_, _)
Before(inp, i) ==
    IF i <= 1 THEN 0 ELSE Before(inp, i - 1) + Len(inp.Properties[i - 1].Renovations)

\* the variable created for position pr: variables are numbered in creation order
VarOf(inp, pr) == Before(inp, pr[1]) + pr[2]

RECURSIVE SumOver(_, _)
SumOver(f, S) ==
    IF S = {} THEN 0
    ELSE LET x == CHOOSE y \in S : TRUE IN f[x] + SumOver(f, S \ {x})

\* the assignments of a finished run
Returned == pc = "returned" /\ ret.Err = NoError

Assignments == ret.Output.Solutions[1].Assignments

TotalCost(as) == SumOver([k \in DOMAIN as |-> as[k].Cost], DOMAIN as)

TotalEffect(as) == SumOver([k \in DOMAIN as |-> as[k].Effect], DOMAIN as)

\* the solver's point behind the reported values
IsPoint(vals) == \A v \in DOMAIN vals : vals[v] \in {0, Scale}

PointOf(vals) == [v \in DOMAIN vals |-> vals[v] \div Scale]

\* the solver result is a 0/1 point that satisfies the constraints of the model
SoundResult ==
    /\ Usable(status)
    /\ DOMAIN values = 1..Len(model.vars)
    /\ IsPoint(values)
    /\ Feasible(model, PointOf(values))

NonNegativeCosts(inp) == \A pr \in Pairs(inp) : RenovationAt(inp, pr).Cost >= 0

-----------------------------------------------------------------------------
\* C7: after the model-building pass the model has one binary variable per
\* (property, renovation) pair, 1 + (number of properties) constraints, and
\* every variable has exactly one objective term (coefficient Effect), exactly
\* one budget term (coefficient Cost) and exactly one term, coefficient 1, in
\* the count constraint (bound 3) of its own property and none in another's.
TermsOf(terms, v) == { k \in 1..Len(terms) : terms[k].var = v }

OneTerm(terms, v, c) ==
    /\ Cardinality(TermsOf(terms, v)) = 1
    /\ \A k \in TermsOf(terms, v) : terms[k].coef = c

C7_ModelShape ==
    pc # "build" =>
        LET n == Cardinality(Pairs(input))
            np == Len(input.Properties)
        IN /\ Len(model.vars) = n
           /\ \A v \in 1..n : model.vars[v] = "Bool"
           /\ Len(model.constraints) = 1 + np
           /\ model.sense = "maximize"
           /\ model.constraints[1].rhs = input.Budget
           /\ Len(model.objective) = n
           /\ Len(model.constraints[1].terms) = n
           /\ \A p \in 1..np :
                 /\ model.constraints[1 + p].rhs = 3
                 /\ model.constraints[1 + p].sense = "<="
                 /\ Len(model.constraints[1 + p].terms)
                       = Len(input.Properties[p].Renovations)
           /\ \A pr \in Pairs(input) :
                 LET v == VarOf(input, pr)
                 IN /\ v \in 1..n
                    /\ OneTerm(model.objective, v, RenovationAt(input, pr).Effect)
                    /\ OneTerm(model.constraints[1].terms, v,
                               RenovationAt(input, pr).Cost)
                    /\ OneTerm(model.constraints[1 + pr[1]].terms, v, 1)
                    /\ \A q \in 1..np :
                          q # pr[1] => TermsOf(model.constraints[1 + q].terms, v) = {}

\* a built model of two properties, one of them without renovations
C7_Witness ==
    /\ pc = "NewSolver"
    /\ Len(input.Properties) = 2
    /\ input.Properties[1].Renovations = <<>>
    /\ Len(input.Properties[2].Renovations) >= 2
    /\ Len(model.vars) >= 2

-----------------------------------------------------------------------------
\* C1: with unique property IDs, costs >= 0 and a result of status optimal or
\* suboptimal that is a 0/1 point satisfying the built model's constraints,
\* the costs of the returned assignments sum to at most Budget.
C1_WithinBudget ==
    (Returned /\ UniqueIDs(input) /\ NonNegativeCosts(input) /\ SoundResult)
        => TotalCost(Assignments) <= input.Budget

\* a returned selection that leaves an affordable-alone renovation out
C1_Witness ==
    /\ Returned /\ UniqueIDs(input) /\ SoundResult
    /\ Len(Assignments) >= 1
    /\ TotalCost(Assignments) > 0
    /\ TotalCost(Assignments) + 2 > input.Budget
    /\ Len(Assignments) < Cardinality(Pairs(input))

-----------------------------------------------------------------------------
\* C2: with unique property IDs and such a result, no property ID is carried
\* by more than 3 returned assignments.
CountFor(as, id) == Cardinality({ k \in DOMAIN as : as[k].Property = id })

C2_AtMostThree ==
    (Returned /\ UniqueIDs(input) /\ SoundResult)
        => \A p \in 1..Len(input.Properties) :
              CountFor(Assignments, input.Properties[p].ID) <= 3

\* a property that offers more than three renovations and gets three
C2_Witness ==
    /\ Returned /\ UniqueIDs(input) /\ SoundResult
    /\ \E p \in 1..Len(input.Properties) :
          /\ Len(input.Properties[p].Renovations) > 3
          /\ CountFor(Assignments, input.Properties[p].ID) = 3

-----------------------------------------------------------------------------
\* the largest total effect of a set of (property, renovation) pairs whose
\* total cost is within the budget and that holds at most 3 pairs per property
Allowed(inp) ==
    { S \in SUBSET Pairs(inp) :
        /\ SumOver([pr \in S |-> RenovationAt(inp, pr).Cost], S) <= inp.Budget
        /\ \A i \in 1..Len(inp.Properties) :
              Cardinality({ pr \in S : pr[1] = i }) <= 3 }

EffectOf(inp, S) == SumOver([pr \in S |-> RenovationAt(inp, pr).Effect], S)

IsMaxEffect(inp, e) ==
    /\ \E S \in Allowed(inp) : EffectOf(inp, S) = e
    /\ \A S \in Allowed(inp) : EffectOf(inp, S) <= e

\* C5: when the solver returns status optimal with a true optimum of the built
\* model, the total effect of the returned assignments is the largest total
\* effect of an allowed set of pairs; scenario A yields exactly {r1, r2} and
\* scenario C exactly 3 assignments.
C5_MaximumEffect ==
    (Returned /\ status = "optimal")
        => /\ IsMaxEffect(input, TotalEffect(Assignments))
           /\ input = ScenarioA =>
                 /\ Len(Assignments) = 2
                 /\ Assignments[1].RenovationID = "r1"
                 /\ Assignments[2].RenovationID = "r2"
           /\ input = ScenarioC => Len(Assignments) = 3

\* C5 on the inputs whose property IDs are unique
C5_MaximumEffect_UniqueIDs == UniqueIDs(input) => C5_MaximumEffect

-----------------------------------------------------------------------------
AllCostsPositive(inp) == \A pr \in Pairs(inp) : RenovationAt(inp, pr).Cost > 0

\* C6 as stated: with Budget 0 and an optimum of the built model the returned
\* assignment list is empty, whatever the renovations are (costs >= 0).
C6_ZeroBudgetEmpty ==
    (Returned /\ status = "optimal" /\ input.Budget = 0 /\ NonNegativeCosts(input))
        => Assignments = <<>>

\* C6 as amended: with Budget 0, every cost > 0 and an optimum of the built
\* model, the returned assignment list is empty.
C6_ZeroBudgetPositiveCostsEmpty ==
    (Returned /\ status = "optimal" /\ input.Budget = 0 /\ AllCostsPositive(input))
        => Assignments = <<>>

\* two properties that offer priced renovations, none of which is bought
C6_Witness ==
    /\ Returned /\ status = "optimal" /\ input.Budget = 0
    /\ AllCostsPositive(input)
    /\ Len(input.Properties) = 2
    /\ \A p \in 1..2 : Len(input.Properties[p].Renovations) >= 1
    /\ Assignments = <<>>

-----------------------------------------------------------------------------
StepOrder ==
    <<"build", "NewSolver", "SetMaximumDuration", "SetMIPGapRelative", "Solve", "format">>

IsPrefix(s, t) == Len(s) <= Len(t) /\ \A k \in 1..Len(s) : s[k] = t[k]

\* C9: the steps run in the order build, NewSolver, SetMaximumDuration,
\* SetMIPGapRelative(0), Solve, format, each at most once; an error of a step
\* is returned at once, unchanged and with an empty output, and no later step
\* runs; format runs only after a Solve without error.
C9_ErrorsPropagate ==
    /\ IsPrefix(called, StepOrder)
    /\ err # NoError =>
          /\ pc = "returned"
          /\ ret = [done |-> TRUE, Output |-> EmptyOutput, Err |-> err]
          /\ called[Len(called)] \in
                {"NewSolver", "SetMaximumDuration", "SetMIPGapRelative", "Solve"}
    /\ ret.done /\ ret.Err # NoError => ret.Err = err
    /\ Len(called) >= 5 => solveOptions.MIPGapRelative = 0
    /\ "format" \in { called[k] : k \in 1..Len(called) } =>
          /\ err = NoError
          /\ status \in Statuses
          /\ called[Len(called) - 1] = "Solve"

\* the gap setter failed after the two steps before it went through
C9_Witness ==
    /\ pc = "returned"
    /\ ret.Err = "errB"
    /\ called = <<"build", "NewSolver", "SetMaximumDuration", "SetMIPGapRelative">>

-----------------------------------------------------------------------------
\* C10: for every input, also one in which two properties share an ID and differ
\* in their number of renovations, every lookup index[property.ID][j] that
\* format() makes refers to a variable of the built index, and format()
\* completes.
C10_LookupsExist ==
    /\ pc # "build" =>
          \A pr \in Pairs(input) :
              /\ input.Properties[pr[1]].ID \in DOMAIN index
              /\ pr[2] \in 1..Len(index[input.Properties[pr[1]].ID])
    /\ pc # "panic"

-----------------------------------------------------------------------------
(* Properties of format() on its own (SpecFormat).                         *)

Formatted == ncalls >= 1

OtherUsable(st) == IF st = "optimal" THEN "suboptimal" ELSE "optimal"

\* C3: format() decides on the status alone whether there are assignments:
\* optimal and suboptimal give the same outcome for the same values, and any
\* other status gives a solution without assignments, whatever the values are,
\* and never a failure.
C3_StatusDecides ==
    Formatted =>
        /\ ~Usable(status) =>
              /\ pc = "returned"
              /\ ret.Err = NoError
              /\ Assignments = <<>>
        /\ Usable(status) =>
              LET other == format(input, OtherUsable(status), values, index)
              IN /\ other.panic <=> pc = "panic"
                 /\ pc = "returned" => Assignments = other.Assignments

\* status error with a variable at 1: nothing is assigned, while the same
\* values under status optimal assign something
C3_Witness ==
    /\ Formatted
    /\ status = "error"
    /\ \E v \in DOMAIN values : values[v] = Scale
    /\ pc = "returned"
    /\ Assignments = <<>>
    /\ format(input, "optimal", values, index).Assignments # <<>>

-----------------------------------------------------------------------------
\* pair q comes before pair pr, or is pr, in input order
NotAfter(q, pr) == q[1] < pr[1] \/ (q[1] = pr[1] /\ q[2] <= pr[2])

\* the pairs whose value rounds to 1 or more
Selected(inp, vals) == { pr \in Pairs(inp) : Round(vals[VarOf(inp, pr)]) >= 1 }

\* C4: with unique property IDs and status optimal or suboptimal, the returned
\* list is exactly the pairs whose value rounds to 1 or more (0.999999 and 0.5
\* are in, anything below 0.5 is out), in input order, none missing, repeated or
\* moved, each with the property ID, renovation ID, cost and effect of the
\* input record at its position.
C4_ExactlyTheSelected ==
    (Formatted /\ UniqueIDs(input) /\ Usable(status)) =>
        LET Sel == Selected(input, values)
            Rank(pr) == Cardinality({ q \in Sel : NotAfter(q, pr) })
        IN /\ pc = "returned"
           /\ Len(Assignments) = Cardinality(Sel)
           /\ \A pr \in Pairs(input) :
                 pr \in Sel <=> 2 * values[VarOf(input, pr)] >= Scale
           /\ \A pr \in Sel :
                 Assignments[Rank(pr)] =
                    [ Property     |-> input.Properties[pr[1]].ID,
                      RenovationID |-> RenovationAt(input, pr).ID,
                      Cost         |-> RenovationAt(input, pr).Cost,
                      Effect       |-> RenovationAt(input, pr).Effect ]

\* two properties; a value of 0.999999 is taken, one of 0.499999 is skipped
\* and a later pair is taken again
C4_Witness ==
    /\ Formatted /\ UniqueIDs(input) /\ Usable(status)
    /\ Len(input.Properties) = 2
    /\ Len(values) = 3
    /\ values[1] = 999999 /\ values[2] = 499999 /\ values[3] = Scale
    /\ Len(Assignments) = 2

-----------------------------------------------------------------------------
====
